---- MODULE Spec2Model ----
(***************************************************************************)
(* ipssl-client: the certificate lifecycle of one IP-address certificate.  *)
(*                                                                         *)
(* The model follows main() (process start, fatal exits, cancellation),    *)
(* ipssl.Client.Start (the renewal scheduler), ipssl.Client.               *)
(* requestCertificate (persist + reload) and zerossl.Client.               *)
(* RequestCertificate with its helpers (find/create, validate, poll,       *)
(* download, key retrieval).  The certificate authority, the clock, the    *)
(* two tickers and the shutdown signal are the environment.                *)
(*                                                                         *)
(* Time is counted in units of 30 days: a certificate issued for 90 days   *)
(* lives Lifetime = 3 units, the default CERT_VALIDITY of 720h is 1 unit.  *)
(***************************************************************************)
EXTENDS Integers, Sequences, FiniteSets, TLC

\* ---------------------------------------------------------------- bounds
MaxTime == 3
MaxRequests == 2
MaxPolls == 3
MaxPollsPerAttempt == 1
MaxAttempts == 2
MaxThreshold == 2
MaxMethods == 2
MaxContainers == 2

\* ------------------------------------------------------ program constants
\* validity days handed to CreateCertificate (90 days = 3 units of 30 days)
Lifetime == 3
\* default CERT_VALIDITY (30*24h = 1 unit of 30 days)
DefaultCertValidity == 1

ClientIP == "127.0.0.1"
\* the subject of a request some other client of the account made
OtherIP == "other"

VARIABLES
    pc,            \* position of the main goroutine
    exit,          \* how the process ended: [status, cause]
    env,           \* the process environment ("": variable unset or empty)
    cfg,           \* the *Config config.Load returned (NoConfig: nil)
    ctxCancelled,  \* ctx.Done() is closed (cancel() was called)
    tickReady,     \* a tick is buffered in the renewal ticker's channel
    pollTickReady, \* a tick is buffered in the poller's ticker channel
    now,           \* wall clock
    certs,         \* the authority's list of certificate requests
    privateKeys,   \* zerossl.Client.privateKeys[ClientIP] (0: no entry)
    nextKey,       \* the next key pair rsa.GenerateKey produces
    certFile,      \* <SSLDir>/cert.pem
    keyFile,       \* <SSLDir>/key.pem
    valFile,       \* the files under <ValidationDir>: path -> content
    cur,           \* certObj.ID / certDetails.ID of the attempt in flight
    bundle,        \* certificate bytes returned by RequestCertificate
    keyPEM,        \* key bytes returned by RequestCertificate
    pollObs,       \* what the poller's status fetches observed, in order
    pollOutcome,   \* how the poller returned
    reload,        \* outcome of the reload notification of the last attempt
    origin,        \* call site of the attempt in flight: "startup" or "tick"
    attemptNo,     \* number of renewal attempts started so far
    inFlight,      \* number of renewal attempts started and not yet returned
    lastOutcome,   \* outcome of the last attempt that returned
    startReason,   \* why the attempt in flight / last attempt was started
    startNotAfter, \* NotAfter of cert.pem when that attempt was started
    allOk,         \* no authority call or file write of that attempt failed
    valTrace,      \* what ValidateCertificate fetched and the calls it made
    reloadCall     \* what ReloadContainer was given, returned and signalled

vars == <<pc, exit, env, cfg, ctxCancelled, tickReady, pollTickReady, now, certs,
          privateKeys, nextKey, certFile, keyFile, valFile, cur, bundle, keyPEM,
          pollObs, pollOutcome, reload, origin, attemptNo, inFlight,
          lastOutcome, startReason, startNotAfter, allOk, valTrace,
          reloadCall>>

\* ------------------------------------------------------------ data model
Statuses == {"draft", "pending_validation", "issued", "cancelled", "expired", "revoked"}

\* what os.ReadFile, pem.Decode and x509.ParseCertificate make of cert.pem
CertForms == {"pem", "unreadable", "not_pem", "not_x509"}

\* zerossl.CertificateBundle: certificate.crt and ca_bundle.crt of a download
CertificateBundle(crt, ca) == [CertificateCrt |-> crt, CABundleCrt |-> ca]

\* RequestCertificate lines 142-151: the leaf, then the chain after a newline
\* when there is a leaf before it
fullCertChainAlwaysSeparated(certBundle) ==
    certBundle.CertificateCrt \o "\n" \o certBundle.CABundleCrt
fullCertChain(certBundle) ==
    LET leaf == IF certBundle.CertificateCrt # "" THEN certBundle.CertificateCrt ELSE ""
    IN IF certBundle.CABundleCrt # ""
       THEN (IF leaf # "" THEN leaf \o "\n" ELSE leaf) \o certBundle.CABundleCrt
       ELSE leaf

\* what the authority serves for an issued request: the leaf, and the chain
\* without or with the cross-signed intermediates; either part may be empty
Leaves == {"", "leaf"}
ChainsOf(includeCrossSigned) == IF includeCrossSigned THEN {"", "chain+cross"} ELSE {"", "chain"}
\* the answers to a download, one for each value of include_cross_signed
Responses ==
    {resp \in [BOOLEAN -> [CertificateCrt : Leaves,
                           CABundleCrt : ChainsOf(TRUE) \cup ChainsOf(FALSE)]] :
        \A b \in BOOLEAN : resp[b].CABundleCrt \in ChainsOf(b)}
\* the answer with both parts, whatever is asked
DefaultResponse ==
    [b \in BOOLEAN |-> CertificateBundle("leaf", IF b THEN "chain+cross" ELSE "chain")]
\* client.DownloadCertificate(ctx, id, includeCrossSigned)
DownloadCertificate(response, includeCrossSigned) == response[includeCrossSigned]

\* the content of cert.pem of an earlier run, by what parsing it gives
BytesOfForm(f) ==
    IF f = "pem" THEN fullCertChain(DefaultResponse[TRUE]) ELSE IF f = "unreadable" THEN "" ELSE f

NoCert ==
    [present |-> FALSE, form |-> "pem", req |-> 0, key |-> 0, notAfter |-> 0, gen |-> 0,
     parts |-> CertificateBundle("", ""), pem |-> ""]
NoKey == [present |-> FALSE, key |-> 0, gen |-> 0]
NoExit == [status |-> "running", cause |-> "none"]

RenewingPcs == {"request", "validate", "poll", "download", "persist"}

\* index of the request with identifier id in the authority's list
IndexOf(list, id) == CHOOSE i \in 1..Len(list) : list[i].id = id

\* the authority's answer to GetCertificate(id)
GetCertificate(list, id) == list[IndexOf(list, id)]

\* ----------------------------------------------------------- config.Load
\* hours in one unit of the model's clock (30 days)
HoursPerUnit == 720

EnvKeys == {"CLIENT_IP", "IPSSL_API_KEY", "IPSSL_VALIDATION_DIR", "IPSSL_SSL_DIR",
            "IPSSL_CONTAINER_NAME", "RENEWAL_INTERVAL", "CERT_VALIDITY"}

\* no variable set
NoEnv == [k \in EnvKeys |-> ""]

\* the environment with the variables of settings set to their values
EnvWith(settings) == [k \in EnvKeys |-> IF k \in DOMAIN settings THEN settings[k] ELSE ""]

\* a duration of whole hours as the operator writes it, e.g. "720h"
DurationString(hours) == ToString(hours) \o "h"

\* the hour counts whose strings occur in the environments studied
ParsableHours ==
    {1, 24, 30} \cup {u * HoursPerUnit : u \in (0 - MaxThreshold - 1)..(MaxThreshold + 1)}

\* time.ParseDuration on those strings; anything else ("abc", "30d", "720":
\* unknown or missing unit) is an error
ParseDuration(value) ==
    IF \E h \in ParsableHours : DurationString(h) = value
    THEN [ok |-> TRUE, hours |-> CHOOSE h \in ParsableHours : DurationString(h) = value]
    ELSE [ok |-> FALSE, hours |-> 0]

getEnv(e, key, defaultValue) == IF e[key] # "" THEN e[key] ELSE defaultValue

getDurationEnv(e, key, defaultValue) ==
    IF e[key] # "" /\ ParseDuration(e[key]).ok THEN ParseDuration(e[key]).hours
    ELSE defaultValue

NoConfig ==
    [ClientIP |-> "", APIKey |-> "", ValidationDir |-> "", SSLDir |-> "",
     ContainerName |-> "", RenewalInterval |-> 0, CertValidity |-> 0]

\* config.Load: the seven fields, then the API key check; durations in hours
ConfigLoadAcceptingNoKey(e) ==
    [err |-> FALSE,
     cfg |-> [NoConfig EXCEPT !.ClientIP = "127.0.0.1", !.ContainerName = "caddy-1"]]
ConfigLoad(e) ==
    LET c == [ClientIP |-> getEnv(e, "CLIENT_IP", "127.0.0.1"),
              APIKey |-> getEnv(e, "IPSSL_API_KEY", ""),
              ValidationDir |-> getEnv(e, "IPSSL_VALIDATION_DIR", "/usr/share/caddy/"),
              SSLDir |-> getEnv(e, "IPSSL_SSL_DIR", "/ipssl/"),
              ContainerName |-> getEnv(e, "IPSSL_CONTAINER_NAME", "caddy-1"),
              RenewalInterval |-> getDurationEnv(e, "RENEWAL_INTERVAL", 24),
              CertValidity |-> getDurationEnv(e, "CERT_VALIDITY",
                                              DefaultCertValidity * HoursPerUnit)]
    IN IF c.APIKey = "" THEN [err |-> TRUE, cfg |-> NoConfig]
       ELSE [err |-> FALSE, cfg |-> c]

\* the deployment's environment: everything left at its default, the API key
\* set or not
DefaultEnvironments == {EnvWith([IPSSL_API_KEY |-> k]) : k \in {"", "key"}}
RunningEnvironments == {e \in DefaultEnvironments : e["IPSSL_API_KEY"] # ""}

\* main got its configuration from environment e
Loaded(envs) ==
    /\ env \in envs
    /\ cfg = ConfigLoad(env).cfg

\* ------------------------------------------------- the paths of an attempt
\* filepath.Join cleans its result: a directory loses its trailing separator
CleanDir(dir) ==
    IF dir = "/ipssl/" THEN "/ipssl"
    ELSE IF dir = "/usr/share/caddy/" THEN "/usr/share/caddy"
    ELSE dir

\* RequestCertificate lines 113-116: the directory handed to
\* ValidateCertificate is read from the environment at each attempt
requestValidationDir(e) ==
    IF e["IPSSL_VALIDATION_DIR"] = "" THEN "/usr/share/caddy/" ELSE e["IPSSL_VALIDATION_DIR"]

\* getPrivateKey line 294: filepath.Join("/ipssl", "key.pem")
getPrivateKeyPath == <<CleanDir("/ipssl"), "key.pem">>

\* requestCertificate line 176: filepath.Join(c.config.SSLDir, "key.pem")
keyPath(c) == <<CleanDir(c.SSLDir), "key.pem">>

\* ---------------------------------------------- validation data and files
\* IPSSL_VALIDATION_DIR at its default, as filepath.Join cleans it
ValidationDir == "/usr/share/caddy"

\* a validation method of Validation.OtherMethods: FileValidationContent and
\* FileValidationURLHTTP, the URL as its path segments
Method(tokens, name) ==
    [tokens |-> tokens,
     url |-> <<"http://ip", ".well-known", "pki-validation", name>>]

\* the method the authority returns for the client's IP
DefaultMethods == << Method(<<"abc", "def">>, "XYZ123") >>

\* what GetCertificate returned: an error, or the details with their methods
\* (no methods: Validation or OtherMethods is nil)
FetchFailed == [ok |-> FALSE, methods |-> <<>>]
Fetched(ms) == [ok |-> TRUE, methods |-> ms]

\* ------------------------------------------------------ the Docker daemon
\* a container as ContainerList returns it: ID, Names, State
Container(id, names, state) == [id |-> id, names |-> names, state |-> state]

\* the container the deployment runs next to the client
DefaultContainers == << Container(1, <<"/caddy-1">>, "running") >>

NoCall == [containers |-> <<>>, err |-> "none", signalled |-> <<>>]

NoFiles == [p \in {} |-> ""]
NoTrace == [calls |-> <<>>, first |-> <<>>, updated |-> <<>>]

\* ------------------------------------------------- zerossl pure functions
\* IsCertificateValid: not expired, and not expiring within validityDuration
IsCertificateValidNoExpiryCheck(notAfter, t, validityDuration) ==
    IF notAfter < t + validityDuration THEN FALSE
    ELSE TRUE
IsCertificateValidExpiredAtDeadline(notAfter, t, validityDuration) ==
    IF t >= notAfter THEN FALSE
    ELSE IF notAfter < t + validityDuration THEN FALSE
    ELSE TRUE
IsCertificateValid(notAfter, t, validityDuration) ==
    IF t > notAfter THEN FALSE
    ELSE IF notAfter < t + validityDuration THEN FALSE
    ELSE TRUE

ReusableStatuses == {"issued", "pending_validation", "draft"}

RECURSIVE findExistingStoppingAtFirstSubjectMatch(_, _, _)
findExistingStoppingAtFirstSubjectMatch(list, ip, i) ==
    IF i > Len(list) THEN 0
    ELSE IF list[i].cn = ip
    THEN (IF list[i].status \in ReusableStatuses THEN list[i].id ELSE 0)
    ELSE findExistingStoppingAtFirstSubjectMatch(list, ip, i + 1)
RECURSIVE findExistingFrom(_, _, _)
findExistingFrom(list, ip, i) ==
    IF i > Len(list) THEN 0
    ELSE IF list[i].cn = ip /\ list[i].status \in ReusableStatuses THEN list[i].id
    ELSE findExistingFrom(list, ip, i + 1)

\* findExistingCertificate: the first listed request for ip that can be reused
findExistingCertificate(list, ip) == findExistingFrom(list, ip, 1)

\* ------------------------------------------------- ipssl store functions
\* c.config.CertValidity on the model's clock
Threshold == cfg.CertValidity \div HoursPerUnit

\* os.Stat of cert.pem and of key.pem: neither reports a missing file
filesExist(cf, kf) == cf.present /\ kf.present

certificateFilesExist == filesExist(certFile, keyFile)

\* the error result of zerossl IsCertificateValid: reading, decoding or
\* parsing cert.pem failed
IsCertificateValidFails(file) == file.form # "pem"

isCertificateValidTrustingUnreadable ==
    IF ~certificateFilesExist THEN FALSE
    ELSE IF IsCertificateValidFails(certFile) THEN TRUE
    ELSE IsCertificateValid(certFile.notAfter, now, Threshold)
isCertificateValid ==
    IF ~certificateFilesExist THEN FALSE
    ELSE IF IsCertificateValidFails(certFile) THEN FALSE
    ELSE IsCertificateValid(certFile.notAfter, now, Threshold)

\* why a renewal attempt is started (the log line of isCertificateValid)
InvalidReason ==
    IF ~certificateFilesExist THEN "missing"
    ELSE IF IsCertificateValidFails(certFile) THEN "unparsable"
    ELSE IF now > certFile.notAfter THEN "expired"
    ELSE "expiring"

\* -------------------------------------------------------------- Init
\* The disk and the authority as an earlier run of the program can have left
\* them: nothing at all; a request created but never persisted; a certificate
\* issued at time 0 and persisted with its key.
PriorRuns ==
    { [certs |-> <<>>, certFile |-> NoCert, keyFile |-> NoKey, nextKey |-> 1],
      [certs |-> << [id |-> 1, cn |-> ClientIP, status |-> "draft", key |-> 1, notAfter |-> 0] >>,
       certFile |-> NoCert, keyFile |-> NoKey, nextKey |-> 2],
      [certs |-> << [id |-> 1, cn |-> ClientIP, status |-> "issued", key |-> 1, notAfter |-> Lifetime] >>,
       certFile |-> [present |-> TRUE, form |-> "pem", req |-> 1, key |-> 1,
                    notAfter |-> Lifetime, gen |-> 0,
                    parts |-> DefaultResponse[TRUE], pem |-> BytesOfForm("pem")],
       keyFile |-> [present |-> TRUE, key |-> 1, gen |-> 0], nextKey |-> 2] }

ProcessStarts(envs) ==
    /\ pc = "load"
    /\ exit = NoExit
    /\ env \in envs
    /\ cfg = NoConfig
    /\ ctxCancelled = FALSE
    /\ tickReady = FALSE
    /\ pollTickReady = FALSE
    /\ now = 0
    /\ \E p \in PriorRuns :
         /\ certs = p.certs
         /\ certFile = p.certFile
         /\ keyFile = p.keyFile
         /\ nextKey = p.nextKey
    /\ privateKeys = 0
    /\ valFile = NoFiles
    /\ cur = 0
    /\ bundle = NoCert
    /\ keyPEM = 0
    /\ pollObs = <<>>
    /\ pollOutcome = "none"
    /\ reload = "none"
    /\ origin = "none"
    /\ attemptNo = 0
    /\ inFlight = 0
    /\ lastOutcome = "none"
    /\ startReason = "none"
    /\ startNotAfter = 0
    /\ allOk = TRUE
    /\ valTrace = NoTrace
    /\ reloadCall = NoCall

Init == ProcessStarts(DefaultEnvironments)

\* ----------------------------------------------------- shared step pieces
Fatal(cause) == [status |-> "fatal", cause |-> cause]

\* an authority call made with a cancelled context fails
CallIgnoresContext(ok) == TRUE
CallMaySucceed(ok) == ok => ~ctxCancelled

\* where Start's loop goes when requestCertificate returned an error at a tick
AfterTickFailureRetriesInline == "request"
AfterTickFailure == "select"

\* the scheduler's select statement is only reached between attempts
SchedulerSelectingWhileRenewing == pc \in {"select"} \cup RenewingPcs
SchedulerSelecting == pc = "select"

\* pollObs and pollOutcome describe the poller while it runs and in the state
\* it returned in; any later step forgets them
ForgetPoller == pollObs' = <<>> /\ pollOutcome' = "none"

\* lastOutcome, reload, allOk, startReason and startNotAfter describe the
\* attempt in flight and, in the state it returned in, the attempt that has
\* just returned; the next step outside an attempt forgets them
ForgetAttempt ==
    /\ ForgetPoller
    /\ lastOutcome' = "none"
    /\ reload' = "none"
    /\ allOk' = TRUE
    /\ startReason' = "none"
    /\ startNotAfter' = 0
KeepWhileRenewing ==
    IF pc \in RenewingPcs
    THEN UNCHANGED <<pollObs, pollOutcome, lastOutcome, reload, allOk, startReason,
                     startNotAfter>>
    ELSE ForgetAttempt

\* requestCertificate is entered from Start (call site o)
BeginAttempt(o) ==
    /\ pc' = "request"
    /\ origin' = o
    /\ attemptNo' = attemptNo + 1
    /\ inFlight' = inFlight + 1
    /\ lastOutcome' = "none"
    /\ startReason' = InvalidReason
    /\ startNotAfter' = certFile.notAfter
    /\ allOk' = TRUE
    /\ cur' = 0
    /\ reload' = "none"
    /\ ForgetPoller

\* the attempt goes on with its next phase
Continue(nextPc) ==
    /\ pc' = nextPc
    /\ UNCHANGED <<exit, lastOutcome, inFlight, startReason, startNotAfter>>

\* requestCertificate returns an error to Start: at startup Start returns it
\* to main, which calls logger.Fatal; at a tick it is logged and the loop
\* continues.  The locals of the attempt are gone.
ReturnFailed ==
    /\ lastOutcome' = "failed"
    /\ inFlight' = inFlight - 1
    /\ cur' = 0
    /\ bundle' = NoCert
    /\ keyPEM' = 0
    /\ allOk' = FALSE
    /\ startReason' = "none"
    /\ startNotAfter' = 0
    /\ IF origin = "startup"
       THEN /\ pc' = "exited"
            /\ exit' = Fatal("startup_renewal")
       ELSE /\ pc' = AfterTickFailure
            /\ UNCHANGED exit

\* requestCertificate returns nil to Start
ReturnOk ==
    /\ lastOutcome' = "success"
    /\ inFlight' = inFlight - 1
    /\ cur' = 0
    /\ bundle' = NoCert
    /\ keyPEM' = 0
    /\ pc' = "select"
    /\ UNCHANGED <<exit, startReason, startNotAfter>>

\* ------------------------------------------------------------------ main
\* main: config.Load; a missing API key is fatal
Load ==
    /\ pc = "load"
    /\ cfg' = ConfigLoad(env).cfg
    /\ IF ConfigLoad(env).err
       THEN pc' = "exited" /\ exit' = Fatal("config")
       ELSE pc' = "construct" /\ UNCHANGED exit
    /\ UNCHANGED <<env, reloadCall, valTrace, ctxCancelled, tickReady, pollTickReady, now, certs,
                   privateKeys, nextKey, certFile, keyFile, valFile, cur, bundle,
                   keyPEM, pollObs, pollOutcome, reload, origin, attemptNo,
                   inFlight, lastOutcome, startReason, startNotAfter, allOk>>

\* main: ipssl.NewClient; the Docker client is built only for a non-empty
\* container name, and a construction failure is fatal
NewClient ==
    /\ pc = "construct"
    /\ \E dockerOk \in BOOLEAN :
         IF cfg.APIKey = "" \/ (cfg.ContainerName # "" /\ ~dockerOk)
         THEN pc' = "exited" /\ exit' = Fatal("construct")
         ELSE pc' = "start" /\ UNCHANGED exit
    /\ UNCHANGED <<env, cfg, reloadCall, valTrace, ctxCancelled, tickReady, pollTickReady, now, certs,
                   privateKeys, nextKey, certFile, keyFile, valFile, cur, bundle,
                   keyPEM, pollObs, pollOutcome, reload, origin, attemptNo,
                   inFlight, lastOutcome, startReason, startNotAfter, allOk>>

\* The shutdown goroutine of main: a signal arrives and cancel() is called.
\* cancel() is seen by the two select statements and by the calls made with
\* ctx, which can fail at any time anyway, so it is taken where the goroutine
\* blocks.
Cancel ==
    /\ pc \in {"select", "poll"}
    /\ ~ctxCancelled
    /\ ctxCancelled' = TRUE
    /\ KeepWhileRenewing
    /\ UNCHANGED <<env, pc, exit, cfg, reloadCall, valTrace, tickReady, pollTickReady, now, certs,
                   privateKeys, nextKey, certFile, keyFile, valFile, cur, bundle,
                   keyPEM, origin, attemptNo, inFlight>>

\* ------------------------------------------------------- Client.Start
\* Start up to the ticker: ensureDirectories, the initial validity check and
\* the call of requestCertificate when the store is not valid
Start ==
    /\ pc = "start"
    /\ \E dirsOk \in BOOLEAN :
         IF ~dirsOk
         THEN /\ pc' = "exited"
              /\ exit' = Fatal("ensure_directories")
              /\ UNCHANGED <<origin, attemptNo, inFlight, lastOutcome, startReason,
                             startNotAfter, allOk, pollObs, pollOutcome, cur, reload>>
         ELSE IF isCertificateValid
         THEN /\ pc' = "select"
              /\ UNCHANGED <<exit, origin, attemptNo, inFlight, lastOutcome,
                             startReason, startNotAfter, allOk, pollObs,
                             pollOutcome, cur, reload>>
         ELSE /\ BeginAttempt("startup")
              /\ UNCHANGED exit
    /\ UNCHANGED <<env, cfg, reloadCall, valTrace, ctxCancelled, tickReady, pollTickReady, now, certs,
                   privateKeys, nextKey, certFile, keyFile, valFile, bundle,
                   keyPEM>>

\* the renewal ticker (time.NewTicker(RenewalInterval)) exists once Start has
\* passed its initial check; its channel buffers one tick.  A tick arrives
\* while time passes, that is where the goroutine blocks.
TickerRunning == pc = "select" \/ (pc = "poll" /\ origin = "tick")

TimerFire ==
    /\ TickerRunning
    /\ ~tickReady
    /\ tickReady' = TRUE
    /\ KeepWhileRenewing
    /\ UNCHANGED <<env, pc, exit, cfg, reloadCall, valTrace, ctxCancelled, pollTickReady, now, certs,
                   privateKeys, nextKey, certFile, keyFile, valFile, cur, bundle,
                   keyPEM, origin, attemptNo, inFlight>>

\* select chose case <-ticker.C
SelectTickAlwaysRenews ==
    /\ SchedulerSelecting
    /\ tickReady
    /\ attemptNo < MaxAttempts
    /\ tickReady' = FALSE
    /\ BeginAttempt("tick")
    /\ UNCHANGED <<exit, env, cfg, reloadCall, valTrace, ctxCancelled, pollTickReady,
                   now, certs, privateKeys, nextKey, certFile, keyFile, valFile,
                   bundle, keyPEM>>
SelectTick ==
    /\ SchedulerSelecting
    /\ tickReady
    /\ isCertificateValid \/ attemptNo < MaxAttempts
    /\ tickReady' = FALSE
    /\ IF ~isCertificateValid
       THEN BeginAttempt("tick")
       ELSE /\ ForgetAttempt
            /\ UNCHANGED <<pc, origin, attemptNo, inFlight, cur>>
    /\ UNCHANGED <<env, exit, cfg, reloadCall, valTrace, ctxCancelled, pollTickReady, now, certs,
                   privateKeys, nextKey, certFile, keyFile, valFile, bundle,
                   keyPEM>>

\* select chose case <-ctx.Done(): Start returns ctx.Err(), which is not nil,
\* so main takes the logger.Fatal branch
SelectDone ==
    /\ pc = "select"
    /\ ctxCancelled
    /\ pc' = "exited"
    /\ exit' = Fatal("cancelled")
    /\ ForgetAttempt
    /\ UNCHANGED <<env, cfg, reloadCall, valTrace, ctxCancelled, tickReady, pollTickReady, now, certs,
                   privateKeys, nextKey, certFile, keyFile, valFile, cur, bundle,
                   keyPEM, origin, attemptNo, inFlight>>

\* -------------------------------------- zerossl.Client.RequestCertificate
\* the request the authority records when it accepts CreateCertificate
NewRequest(key) ==
    [id |-> Len(certs) + 1, cn |-> ClientIP, status |-> "draft", key |-> key, notAfter |-> 0]

\* RequestCertificate line 94: the request found is reused, a new one is
\* created when existingCertID is "" (0 here), as it is after an error too
createsAlways(existingCertID) == FALSE
reusesExisting(existingCertID) == existingCertID # 0

\* RequestCertificate lines 82-110: findExistingCertificate (its error is only
\* logged), then either GetCertificate of the request found or
\* createIPCertificate.  The authority lists the requests in the order they
\* were created, and accepts at most MaxRequests of them.
RequestStep ==
    /\ pc = "request"
    /\ \E listOk, getOk, genOk, csrOk, createOk \in BOOLEAN :
         /\ CallMaySucceed(listOk) /\ CallMaySucceed(getOk) /\ CallMaySucceed(createOk)
         /\ LET existingCertID == IF listOk THEN findExistingCertificate(certs, ClientIP) ELSE 0
            IN IF reusesExisting(existingCertID)
               THEN \* reuse: GetCertificate(existingCertID)
                    /\ UNCHANGED <<privateKeys, nextKey, certs>>
                    /\ IF getOk
                       THEN /\ cur' = existingCertID
                            /\ UNCHANGED <<allOk, bundle, keyPEM>>
                            /\ Continue("validate")
                       ELSE ReturnFailed
               ELSE \* createIPCertificate
                    IF ~genOk \/ ~csrOk
                    THEN \* rsa.GenerateKey, net.ParseIP or the signing request failed
                         /\ UNCHANGED <<privateKeys, nextKey, certs>>
                         /\ ReturnFailed
                    ELSE \* the key is cached before the request is submitted
                         /\ privateKeys' = nextKey
                         /\ nextKey' = nextKey + 1
                         /\ IF createOk /\ Len(certs) < MaxRequests
                            THEN /\ certs' = Append(certs, NewRequest(nextKey))
                                 /\ cur' = Len(certs) + 1
                                 /\ allOk' = (allOk /\ listOk)
                                 /\ UNCHANGED <<bundle, keyPEM>>
                                 /\ Continue("validate")
                            ELSE /\ UNCHANGED certs
                                 /\ ReturnFailed
    /\ UNCHANGED <<env, cfg, reloadCall, valTrace, ctxCancelled, tickReady, pollTickReady, now, certFile,
                   keyFile, valFile, pollObs, pollOutcome, reload, origin,
                   attemptNo>>

\* validationContent: the content tokens, a newline before each but the first
RECURSIVE validationContentUnseparated(_, _)
validationContentUnseparated(tokens, i) ==
    IF i > Len(tokens) THEN ""
    ELSE tokens[i] \o validationContentUnseparated(tokens, i + 1)
RECURSIVE validationContent(_, _)
validationContent(tokens, i) ==
    IF i > Len(tokens) THEN ""
    ELSE (IF i > 1 THEN "\n" ELSE "") \o tokens[i] \o validationContent(tokens, i + 1)

\* filepath.Base: the last segment, trailing slashes dropped, "." when empty
RECURSIVE Base(_)
Base(url) ==
    IF url = <<>> THEN "."
    ELSE IF url[Len(url)] = "" THEN Base(SubSeq(url, 1, Len(url) - 1))
    ELSE url[Len(url)]

\* filepath.Join(validationDir, ".well-known", "pki-validation", filename)
validationPath(dir, url) == <<dir, ".well-known", "pki-validation", Base(url)>>

\* os.WriteFile: the file holds the new content, whatever it held
WriteFile(files, path, content) ==
    [p \in DOMAIN files \cup {path} |-> IF p = path THEN content ELSE files[p]]

\* one loop over OtherMethods (a map, ranged over in any order: ms is the
\* order of this run): a method without content is skipped, a failed
\* MkdirAll or WriteFile returns at once
RECURSIVE writeValidationFiles(_, _, _, _)
writeValidationFiles(files, ms, i, writeOk) ==
    IF i > Len(ms) THEN [files |-> files, err |-> FALSE]
    ELSE IF Len(ms[i].tokens) > 0
    THEN IF ~writeOk
         THEN [files |-> files, err |-> TRUE]
         ELSE writeValidationFiles(
                  WriteFile(files, validationPath(ValidationDir, ms[i].url),
                            validationContent(ms[i].tokens, 1)),
                  ms, i + 1, writeOk)
    ELSE writeValidationFiles(files, ms, i + 1, writeOk)

\* ValidateCertificate: GetCertificate, write the validation files it names,
\* VerifyIdentifiers (its error is only logged), GetCertificate again, write
\* the files of the updated details.  get1/get2: what the two GetCertificate
\* calls returned.
ValidateCertificatePropagatingTrigger(files, get1, write1, trigger, get2, write2) ==
    IF ~get1.ok \/ writeValidationFiles(files, get1.methods, 1, write1).err \/ ~trigger
    THEN [err |-> "failed", files |-> files, calls |-> <<"get">>]
    ELSE [err |-> "none", files |-> files, calls |-> <<"get", "trigger_ok">>]
ValidateCertificate(files, get1, write1, trigger, get2, write2) ==
    IF ~get1.ok
    THEN [err |-> "get", files |-> files, calls |-> <<"get">>]
    ELSE LET p1 == writeValidationFiles(files, get1.methods, 1, write1)
             tr == IF trigger THEN "trigger_ok" ELSE "trigger_failed"
         IN IF p1.err
            THEN [err |-> "filesystem", files |-> p1.files, calls |-> <<"get", "write">>]
            ELSE IF ~get2.ok
            THEN [err |-> "get", files |-> p1.files,
                  calls |-> <<"get", "write", tr, "get">>]
            ELSE LET p2 == writeValidationFiles(p1.files, get2.methods, 1, write2)
                 IN [err |-> IF p2.err THEN "filesystem" ELSE "none",
                     files |-> p2.files,
                     calls |-> <<"get", "write", tr, "get", "write">>]

\* RequestCertificate lines 112-121: ValidateCertificate for the request in
\* hand; its error ends the attempt.  fetches: what GetCertificate can return;
\* observe: whether valTrace keeps what was fetched and called.
ValidateWith(fetches, observe) ==
    /\ pc = "validate"
    /\ \E get1, get2 \in {FetchFailed} \cup fetches, write1, trigger, write2 \in BOOLEAN :
         /\ CallMaySucceed(get1.ok) /\ CallMaySucceed(get2.ok)
         /\ CallMaySucceed(trigger)
         /\ LET r == ValidateCertificate(valFile, get1, write1, trigger, get2, write2)
            IN /\ valFile' = r.files
               /\ valTrace' = IF observe
                              THEN [calls |-> r.calls, first |-> get1.methods,
                                    updated |-> IF Len(r.calls) = 5
                                                THEN get2.methods ELSE <<>>]
                              ELSE NoTrace
               /\ IF r.err # "none"
                  THEN /\ UNCHANGED pollTickReady
                       /\ ReturnFailed
                  ELSE \* waitForCertificateIssuance creates its ticker
                       /\ allOk' = (allOk /\ trigger)
                       /\ pollTickReady' = FALSE
                       /\ UNCHANGED <<cur, bundle, keyPEM>>
                       /\ Continue("poll")
    /\ UNCHANGED <<env, cfg, reloadCall, ctxCancelled, tickReady, now, certs, privateKeys, nextKey,
                   certFile, keyFile, pollObs, pollOutcome, reload, origin,
                   attemptNo>>

\* the authority returns no validation data or the method of the client's IP
Validate == ValidateWith({Fetched(<<>>), Fetched(DefaultMethods)}, FALSE)

\* -------------------------------------------- waitForCertificateIssuance
TerminalFailure == {"cancelled", "expired"}

\* the body of case <-ticker.C for one observation ("error": the fetch failed)
PollDecisionAbortsOnError(obs) ==
    IF obs = "error" THEN "failed"
    ELSE IF obs = "issued" THEN "success"
    ELSE IF obs \in TerminalFailure THEN "failed"
    ELSE "continue"
PollDecisionIgnoresExpired(obs) ==
    IF obs = "error" THEN "continue"
    ELSE IF obs = "issued" THEN "success"
    ELSE IF obs = "cancelled" THEN "failed"
    ELSE "continue"
PollDecisionAcceptsPending(obs) ==
    IF obs = "error" THEN "continue"
    ELSE IF obs \in {"issued", "pending_validation"} THEN "success"
    ELSE IF obs \in TerminalFailure THEN "failed"
    ELSE "continue"
PollDecision(obs) ==
    IF obs = "error" THEN "continue"
    ELSE IF obs = "issued" THEN "success"
    ELSE IF obs \in TerminalFailure THEN "failed"
    ELSE IF obs \in {"draft", "pending_validation"} THEN "continue"
    ELSE "continue"

\* the poller's 10-second ticker
PollTimerFire ==
    /\ pc = "poll"
    /\ ~pollTickReady
    /\ pollTickReady' = TRUE
    /\ UNCHANGED <<env, pc, exit, cfg, reloadCall, valTrace, ctxCancelled, tickReady, now, certs,
                   privateKeys, nextKey, certFile, keyFile, valFile, cur, bundle,
                   keyPEM, pollObs, pollOutcome, reload, origin, attemptNo,
                   inFlight, lastOutcome, startReason, startNotAfter, allOk>>

\* the select of the poller's loop is its first statement: a status fetch is
\* made only on receiving from ticker.C
fetchesAtOnce(ready) == TRUE
tickReceived(ready) == ready

\* the last n entries of seq
LastN(seq, n) == IF Len(seq) <= n THEN seq ELSE SubSeq(seq, Len(seq) - n + 1, Len(seq))

\* select chose case <-ticker.C: one status fetch.  The loop keeps no count
\* and no history; pollObs remembers the last memory observations, and the
\* poller is followed while fewer than maxPolls are remembered.
PollTickRemembering(maxPolls, memory) ==
    /\ pc = "poll"
    /\ tickReceived(pollTickReady)
    /\ Len(pollObs) < maxPolls
    /\ pollTickReady' = FALSE
    /\ \E fetchOk \in BOOLEAN :
         /\ CallMaySucceed(fetchOk)
         /\ LET obs == IF fetchOk THEN GetCertificate(certs, cur).status ELSE "error"
                d == PollDecision(obs)
            IN /\ pollObs' = LastN(Append(pollObs, obs), memory)
               /\ IF d = "success"
                  THEN /\ pollOutcome' = "success"
                       /\ allOk' = (allOk /\ fetchOk)
                       /\ UNCHANGED <<cur, bundle, keyPEM>>
                       /\ Continue("download")
                  ELSE IF d = "failed"
                  THEN /\ pollOutcome' = "failed"
                       /\ ReturnFailed
                  ELSE /\ pollOutcome' = "none"
                       /\ allOk' = (allOk /\ fetchOk)
                       /\ UNCHANGED <<cur, bundle, keyPEM>>
                       /\ Continue("poll")
    /\ UNCHANGED <<env, cfg, reloadCall, valTrace, ctxCancelled, tickReady, now, certs, privateKeys, nextKey,
                   certFile, keyFile, valFile, reload, origin, attemptNo>>

\* at most maxPolls status fetches are followed
PollTickWithin(maxPolls) == PollTickRemembering(maxPolls, maxPolls)

PollTick == PollTickWithin(MaxPollsPerAttempt)

\* a poller that drops the pending tick on ctx.Done() and keeps waiting
PollDoneKeepsPolling ==
    /\ pc = "poll"
    /\ ctxCancelled
    /\ pollTickReady' = FALSE
    /\ UNCHANGED <<env, cfg, reloadCall, valTrace, ctxCancelled, tickReady, now, certs,
                   privateKeys, nextKey, certFile, keyFile, valFile, pollObs,
                   reload, origin, attemptNo, pollOutcome, pc, cur, lastOutcome,
                   exit, allOk, bundle, inFlight, keyPEM, startNotAfter,
                   startReason>>

\* select chose case <-ctx.Done(): the poller returns ctx.Err() and its
\* deferred ticker.Stop() runs
PollDone ==
    /\ pc = "poll"
    /\ ctxCancelled
    /\ pollOutcome' = "cancelled"
    /\ pollTickReady' = FALSE
    /\ ReturnFailed
    /\ UNCHANGED <<env, cfg, reloadCall, valTrace, ctxCancelled, tickReady, now, certs,
                   privateKeys, nextKey, certFile, keyFile, valFile, pollObs,
                   reload, origin, attemptNo>>

\* ------------------------- RequestCertificate lines 128-154, getPrivateKey
\* what DownloadCertificate returns for an issued request
Bundle(r, certBundle) ==
    [present |-> TRUE, form |-> IF fullCertChain(certBundle) = "" THEN "not_pem" ELSE "pem",
     req |-> r.id, key |-> r.key, notAfter |-> r.notAfter, gen |-> attemptNo,
     parts |-> certBundle, pem |-> fullCertChain(certBundle)]

\* getPrivateKey after its GetCertificate: the cache entry of the request's
\* CommonName, else /ipssl/key.pem if os.ReadFile returns it, else a
\* brand-new key (fresh) that is cached and written to /ipssl/key.pem (a
\* failed write is only logged).  <SSLDir> is /ipssl/, so /ipssl/key.pem is
\* keyFile.
getPrivateKeyFileFirst(cache, kf, fresh, genOk, saveOk, gen) ==
    IF kf.present
    THEN [err |-> FALSE, key |-> kf.key, cache |-> cache, keyFile |-> kf, generated |-> FALSE]
    ELSE IF cache # 0
    THEN [err |-> FALSE, key |-> cache, cache |-> cache, keyFile |-> kf, generated |-> FALSE]
    ELSE [err |-> ~genOk, key |-> 0, cache |-> cache, keyFile |-> kf, generated |-> FALSE]
getPrivateKey(cache, kf, fresh, genOk, saveOk, gen) ==
    IF cache # 0
    THEN [err |-> FALSE, key |-> cache, cache |-> cache, keyFile |-> kf, generated |-> FALSE]
    ELSE IF kf.present
    THEN [err |-> FALSE, key |-> kf.key, cache |-> cache, keyFile |-> kf, generated |-> FALSE]
    ELSE IF ~genOk
    THEN [err |-> TRUE, key |-> 0, cache |-> cache, keyFile |-> kf, generated |-> FALSE]
    ELSE [err |-> FALSE, key |-> fresh, cache |-> fresh,
          keyFile |-> IF saveOk THEN [present |-> TRUE, key |-> fresh, gen |-> gen] ELSE kf,
          generated |-> TRUE]

\* DownloadCertificate (always with includeCrossSigned true), then
\* getPrivateKey with its GetCertificate; downloads: what the authority may
\* answer
DownloadWith(downloads) ==
    /\ pc = "download"
    /\ ForgetPoller
    /\ \E dlOk, getOk, genOk, saveOk \in BOOLEAN, response \in downloads :
         /\ CallMaySucceed(dlOk) /\ CallMaySucceed(getOk)
         /\ LET r == GetCertificate(certs, cur)
            IN IF ~dlOk \/ r.status # "issued"
               THEN /\ UNCHANGED <<privateKeys, nextKey, keyFile>>
                    /\ ReturnFailed
               ELSE IF ~getOk
               THEN /\ UNCHANGED <<privateKeys, nextKey, keyFile>>
                    /\ ReturnFailed
               ELSE LET k == getPrivateKey(privateKeys, keyFile, nextKey, genOk,
                                           saveOk, attemptNo)
                    IN IF k.err
                       THEN /\ UNCHANGED <<privateKeys, nextKey, keyFile>>
                            /\ ReturnFailed
                       ELSE /\ privateKeys' = k.cache
                            /\ nextKey' = IF k.generated THEN nextKey + 1 ELSE nextKey
                            /\ keyPEM' = k.key
                            /\ keyFile' = k.keyFile
                            /\ allOk' = (allOk /\ (k.generated => saveOk))
                            /\ bundle' = Bundle(r, DownloadCertificate(response, TRUE))
                            /\ UNCHANGED cur
                            /\ Continue("persist")
    /\ UNCHANGED <<env, cfg, reloadCall, valTrace, ctxCancelled, tickReady, pollTickReady, now, certs,
                   certFile, valFile, reload, origin, attemptNo>>

Download == DownloadWith({DefaultResponse})

\* ---------------------------------- ipssl.Client.requestCertificate, rest
\* os.WriteFile(cert.pem), os.WriteFile(key.pem), then the reload of the
\* container when a Docker client was built
\* the two os.WriteFile calls: each truncates its file and writes the bytes
\* it is given, whatever the file held
persistStampingWrites(store, b, k) ==
    [certFile |-> [b EXCEPT !.gen = store.certFile.gen + 1],
     keyFile |-> [present |-> TRUE, key |-> k, gen |-> store.keyFile.gen + 1]]
persist(store, b, k) ==
    [certFile |-> b,
     keyFile |-> [present |-> TRUE, key |-> k, gen |-> b.gen]]

\* cert.pem and key.pem as they are on disk
Store == [certFile |-> certFile, keyFile |-> keyFile]

\* name == "/"+containerName || name == containerName, for one of the names
HasName(c, containerName) ==
    \E i \in 1..Len(c.names) :
        c.names[i] = "/" \o containerName \/ c.names[i] = containerName

\* the loop of ReloadContainer: the first listed container with the name
\* (0: not found)
RECURSIVE firstRunningNamed(_, _, _)
firstRunningNamed(containers, containerName, i) ==
    IF i > Len(containers) THEN 0
    ELSE IF HasName(containers[i], containerName) /\ containers[i].state = "running" THEN i
    ELSE firstRunningNamed(containers, containerName, i + 1)
RECURSIVE firstNamed(_, _, _)
firstNamed(containers, containerName, i) ==
    IF i > Len(containers) THEN 0
    ELSE IF HasName(containers[i], containerName) THEN i
    ELSE firstNamed(containers, containerName, i + 1)

\* docker ReloadContainer: ContainerList, the target, its state, ContainerKill
\* with SIGHUP; signalled: the IDs ContainerKill delivered the signal to
ReloadContainer(containers, containerName, listOk, killOk) ==
    LET t == firstNamed(containers, containerName, 1)
    IN IF ~listOk THEN [err |-> "list", signalled |-> <<>>]
       ELSE IF t = 0 THEN [err |-> "not_found", signalled |-> <<>>]
       ELSE IF containers[t].state # "running" THEN [err |-> "not_running", signalled |-> <<>>]
       ELSE IF ~killOk THEN [err |-> "kill", signalled |-> <<>>]
       ELSE [err |-> "nil", signalled |-> <<containers[t].id>>]

\* lines 191-199: ReloadContainer is called only with a Docker client, which
\* NewClient builds only for a non-empty container name; rl is what the call
\* returns
reloadOutcome(name, rl) == IF name # "" THEN rl ELSE "skipped"

\* what requestCertificate returns after RequestCertificate succeeded: the
\* error of a failed write; the error of the reload is only logged
requestCertificateResultFailingOnReload(certOk, keyOk, reloaded) ==
    IF ~certOk THEN "cert_write"
    ELSE IF ~keyOk THEN "key_write"
    ELSE IF reloaded = "failed" THEN "reload"
    ELSE "nil"
requestCertificateResult(certOk, keyOk, reloaded) ==
    IF ~certOk THEN "cert_write"
    ELSE IF ~keyOk THEN "key_write"
    ELSE "nil"

\* daemon: the lists ContainerList can return; observe: whether reloadCall
\* keeps the call
PersistWith(daemon, observe) ==
    /\ pc = "persist"
    /\ ForgetPoller
    /\ \E certOk, keyOk, listOk, killOk \in BOOLEAN, containers \in daemon :
         /\ CallMaySucceed(listOk) /\ CallMaySucceed(killOk)
         /\ LET r == ReloadContainer(containers, cfg.ContainerName, listOk, killOk)
                rl == IF r.err = "nil" THEN "ok" ELSE "failed"
                reloaded == reloadOutcome(cfg.ContainerName, rl)
            IN /\ reloadCall' = IF observe /\ certOk /\ keyOk /\ reloaded # "skipped"
                                THEN [containers |-> containers, err |-> r.err,
                                      signalled |-> r.signalled]
                                ELSE NoCall
               /\ certFile' = IF certOk THEN persist(Store, bundle, keyPEM).certFile
                                        ELSE certFile
               /\ keyFile' = IF certOk /\ keyOk THEN persist(Store, bundle, keyPEM).keyFile
                                                 ELSE keyFile
               /\ reload' = IF certOk /\ keyOk THEN reloaded ELSE reload
               /\ IF requestCertificateResult(certOk, keyOk, reloaded) = "nil"
                  THEN /\ UNCHANGED allOk
                       /\ ReturnOk
                  ELSE ReturnFailed
    /\ UNCHANGED <<env, cfg, valTrace, ctxCancelled, tickReady, pollTickReady, now, certs,
                   privateKeys, nextKey, valFile, origin, attemptNo>>

Persist == PersistWith({DefaultContainers}, FALSE)

\* ----------------------------------------------------------- environment
\* The clock.  Time passes where the goroutine blocks (the two select
\* statements) and before Start; the steps in between take no time at the
\* scale of the model's time unit.
Advance ==
    /\ pc \in {"start", "select"}
    /\ now < MaxTime
    /\ now' = now + 1
    /\ KeepWhileRenewing
    /\ UNCHANGED <<env, pc, exit, cfg, reloadCall, valTrace, ctxCancelled, tickReady, pollTickReady, certs,
                   privateKeys, nextKey, certFile, keyFile, valFile, cur, bundle,
                   keyPEM, origin, attemptNo, inFlight>>

\* the status changes the authority makes to a request
AuthorityMoves(r, s) ==
    \/ r.status = "draft" /\ s \in {"pending_validation", "cancelled"}
    \/ r.status = "pending_validation" /\ s \in {"issued", "cancelled"}
    \/ r.status = "issued" /\ s = "revoked"
    \/ r.status = "issued" /\ s = "expired" /\ now > r.notAfter

\* The authority changes a request.  The client sees the authority only
\* through its calls, so the changes are taken where the goroutine blocks;
\* the poller sees only the request it waits for.
AuthorityStep ==
    /\ pc \in {"select", "poll"}
    /\ \E i \in 1..Len(certs), s \in Statuses :
         /\ pc = "poll" => certs[i].id = cur
         /\ AuthorityMoves(certs[i], s)
         /\ certs' = [certs EXCEPT ![i] =
                        [@ EXCEPT !.status = s,
                                  !.notAfter = IF s = "issued" THEN now + Lifetime ELSE @]]
    /\ KeepWhileRenewing
    /\ UNCHANGED <<env, pc, exit, cfg, reloadCall, valTrace, ctxCancelled, tickReady, pollTickReady, now,
                   privateKeys, nextKey, certFile, keyFile, valFile, cur, bundle,
                   keyPEM, origin, attemptNo, inFlight>>

\* --------------------------------------------------------- specification
Next ==
    \/ Load
    \/ NewClient
    \/ Cancel
    \/ Start
    \/ TimerFire
    \/ SelectTick
    \/ SelectDone
    \/ RequestStep
    \/ Validate
    \/ PollTimerFire
    \/ PollTick
    \/ PollDone
    \/ Download
    \/ Persist
    \/ Advance
    \/ AuthorityStep

Spec == Init /\ [][Next]_vars

\* ------------------------------------------- the issuance poller on its own
\* waitForCertificateIssuance has just been entered (Validate returned nil)
\* for request 1, which the authority holds in any status; the poller is
\* followed for MaxPolls status fetches until it returns.
PollerWaiting(cancelled) ==
    /\ pc = "poll"
    /\ exit = NoExit
    /\ Loaded(RunningEnvironments)
    /\ ctxCancelled = cancelled
    /\ tickReady = FALSE
    /\ pollTickReady = FALSE
    /\ now = 0
    /\ \E st \in Statuses :
         certs = << [id |-> 1, cn |-> ClientIP, status |-> st, key |-> 1,
                     notAfter |-> IF st \in {"issued", "expired", "revoked"} THEN Lifetime ELSE 0] >>
    /\ privateKeys \in {0, 1}
    /\ nextKey = 2
    /\ certFile = NoCert
    /\ keyFile = NoKey
    /\ valFile \in {NoFiles, ValidateCertificate(NoFiles, Fetched(DefaultMethods), TRUE, TRUE,
                                             Fetched(DefaultMethods), TRUE).files}
    /\ cur = 1
    /\ bundle = NoCert
    /\ keyPEM = 0
    /\ pollObs = <<>>
    /\ pollOutcome = "none"
    /\ reload = "none"
    /\ origin \in {"startup", "tick"}
    /\ attemptNo = 1
    /\ inFlight = 1
    /\ lastOutcome = "none"
    /\ startReason = "missing"
    /\ startNotAfter = 0
    /\ allOk = TRUE
    /\ valTrace = NoTrace
    /\ reloadCall = NoCall

InitPoller == PollerWaiting(FALSE)

PollTickLong == PollTickWithin(MaxPolls)

NextPoller ==
    \/ PollTimerFire
    \/ PollTickLong
    \/ PollDone
    \/ Cancel /\ pc = "poll"
    \/ AuthorityStep /\ pc = "poll"

SpecPoller == InitPoller /\ [][NextPoller]_vars

\* ------------------------------------------- the validity check on its own
\* CERT_VALIDITY is whatever time.ParseDuration accepts: zero and negative
\* durations too
Thresholds == (0 - MaxThreshold)..MaxThreshold
NotAfters == 0..(MaxTime + MaxThreshold + 1)

\* The scheduler about to make its check, at startup or in its select with a
\* tick ready, with any files on disk, any clock and any threshold.
InitValidity ==
    /\ pc \in {"start", "select"}
    /\ exit = NoExit
    /\ Loaded({EnvWith([IPSSL_API_KEY |-> "key",
                         CERT_VALIDITY |-> DurationString(t * HoursPerUnit)]) :
                 t \in Thresholds})
    /\ ctxCancelled = FALSE
    /\ tickReady = (pc = "select")
    /\ pollTickReady = FALSE
    /\ now \in 0..MaxTime
    /\ certs = <<>>
    /\ privateKeys = 0
    /\ nextKey = 2
    /\ \E p \in BOOLEAN, f \in CertForms, na \in NotAfters :
         certFile = [present |-> p, form |-> f, req |-> 1, key |-> 1, notAfter |-> na, gen |-> 0,
                     parts |-> IF f = "pem" THEN DefaultResponse[TRUE] ELSE CertificateBundle("", ""),
                     pem |-> BytesOfForm(f)]
    /\ \E p \in BOOLEAN : keyFile = [present |-> p, key |-> 1, gen |-> 0]
    /\ valFile = NoFiles
    /\ cur = 0
    /\ bundle = NoCert
    /\ keyPEM = 0
    /\ pollObs = <<>>
    /\ pollOutcome = "none"
    /\ reload = "none"
    /\ origin = "none"
    /\ attemptNo = 0
    /\ inFlight = 0
    /\ lastOutcome = "none"
    /\ startReason = "none"
    /\ startNotAfter = 0
    /\ allOk = TRUE
    /\ valTrace = NoTrace
    /\ reloadCall = NoCall

NextValidity ==
    \/ Start
    \/ TimerFire
    \/ SelectTick
    \/ Advance

SpecValidity == InitValidity /\ [][NextValidity]_vars

\* ------------------------------------- the poller from cancel() onwards
\* cancel() has just been called while the poller waits in its select: no
\* tick is buffered, and pollObs counts the status fetches made from here on.
InitCancelledPoller == PollerWaiting(TRUE)

\* every fetch takes one tick from the channel, and none was buffered at
\* cancel()
FiresSinceCancel == Len(pollObs) + (IF pollTickReady THEN 1 ELSE 0)

\* The ticker's period is 10 seconds, while a select that finds ctx.Done()
\* ready and a GetCertificate on a cancelled context return at once: at most
\* one tick of the ticker falls between cancel() and the poller's return.
PollTimerFireTimed ==
    /\ FiresSinceCancel = 0
    /\ PollTimerFire

NextCancelledPoller ==
    \/ PollTimerFireTimed
    \/ PollTickLong
    \/ PollDone
    \/ AuthorityStep /\ pc = "poll"

\* the select chooses at random among its ready cases, so a ready ctx.Done()
\* is eventually taken
SpecCancelledPoller ==
    InitCancelledPoller /\ [][NextCancelledPoller]_vars /\ WF_vars(PollDone)

\* ------------------------------------------ the poller without an end
\* every status fetch is followed; only the last observation is remembered
PollTickUnbounded == PollTickRemembering(2, 1)

CancelPoller == Cancel /\ pc = "poll"
AuthorityStepPoller == AuthorityStep /\ pc = "poll"

NextPollerLive ==
    \/ PollTimerFire
    \/ PollTickUnbounded
    \/ PollDone
    \/ CancelPoller
    \/ AuthorityStepPoller

\* the ticker keeps firing, a ready tick is eventually received, and a ready
\* ctx.Done() is eventually chosen by the select
SpecPollerLive ==
    /\ InitPoller
    /\ [][NextPollerLive]_vars
    /\ WF_vars(PollTimerFire)
    /\ WF_vars(PollTickUnbounded)
    /\ WF_vars(PollDone)

\* --------------------------------- ValidateCertificate, from its first line
\* the validation methods the authority may name
ValidationMethods ==
    { Method(<<"abc", "def">>, "XYZ123"),
      Method(<<"new">>, "XYZ123"),
      Method(<<"tok", "comodoca.com", "hash">>, "ABC456"),
      Method(<<>>, "EMPTY") }

\* details with up to n methods, each with a target URL of its own
FetchesUpTo(n) ==
    { Fetched(ms) : ms \in
        { q \in UNION { [1..k -> ValidationMethods] : k \in 0..n } :
            \A i, j \in 1..Len(q) : i # j => q[i].url # q[j].url } }

\* a validation file an earlier attempt left behind
StaleFiles == WriteFile(NoFiles, validationPath(ValidationDir, Method(<<>>, "XYZ123").url), "old")

\* RequestCertificate has its draft request and calls ValidateCertificate
InitValidation ==
    /\ pc = "validate"
    /\ exit = NoExit
    /\ Loaded(RunningEnvironments)
    /\ ctxCancelled = FALSE
    /\ tickReady = FALSE
    /\ pollTickReady = FALSE
    /\ now = 0
    /\ certs = << [id |-> 1, cn |-> ClientIP, status |-> "draft", key |-> 1,
                   notAfter |-> 0] >>
    /\ privateKeys = 1
    /\ nextKey = 2
    /\ certFile = NoCert
    /\ keyFile = NoKey
    /\ valFile \in {NoFiles, StaleFiles}
    /\ cur = 1
    /\ bundle = NoCert
    /\ keyPEM = 0
    /\ pollObs = <<>>
    /\ pollOutcome = "none"
    /\ reload = "none"
    /\ origin \in {"startup", "tick"}
    /\ attemptNo = 1
    /\ inFlight = 1
    /\ lastOutcome = "none"
    /\ startReason = "missing"
    /\ startNotAfter = 0
    /\ allOk = TRUE
    /\ valTrace = NoTrace
    /\ reloadCall = NoCall

ValidateObserved == ValidateWith(FetchesUpTo(MaxMethods), TRUE)

NextValidation ==
    \/ ValidateObserved
    \/ PollTimerFire
    \/ PollTickLong

SpecValidation == InitValidation /\ [][NextValidation]_vars

\* ------------------------------- RequestCertificate, from its first line
\* what ListCertificates can return: up to n requests of this client and of
\* others, in any status, identified by their position
ListingsUpTo(n) ==
    UNION { { [i \in 1..k |-> [id |-> i, cn |-> q[i].cn, status |-> q[i].status,
                               key |-> i,
                               notAfter |-> IF q[i].status \in {"issued", "expired", "revoked"}
                                            THEN Lifetime ELSE 0]] :
              q \in [1..k -> [cn : {ClientIP, OtherIP}, status : Statuses]] } :
            k \in 0..n }

\* requestCertificate has just called RequestCertificate, at startup or at a
\* tick, with nothing on disk and no key cached
InitFind ==
    /\ pc = "request"
    /\ exit = NoExit
    /\ Loaded(RunningEnvironments)
    /\ ctxCancelled = FALSE
    /\ tickReady = FALSE
    /\ pollTickReady = FALSE
    /\ now = 0
    /\ certs \in ListingsUpTo(MaxRequests)
    /\ privateKeys = 0
    /\ nextKey = Len(certs) + 1
    /\ certFile = NoCert
    /\ keyFile = NoKey
    /\ valFile = NoFiles
    /\ cur = 0
    /\ bundle = NoCert
    /\ keyPEM = 0
    /\ pollObs = <<>>
    /\ pollOutcome = "none"
    /\ reload = "none"
    /\ origin \in {"startup", "tick"}
    /\ attemptNo = 1
    /\ inFlight = 1
    /\ lastOutcome = "none"
    /\ startReason = "missing"
    /\ startNotAfter = 0
    /\ allOk = TRUE
    /\ valTrace = NoTrace
    /\ reloadCall = NoCall

NextFind == RequestStep

SpecFind == InitFind /\ [][NextFind]_vars

\* ---------------------------------- download, key retrieval and persist
\* The poller has just returned the issued request 1, whose key pair is 1.
\* The cache is empty (the process was restarted) or holds key 1 or the key 2
\* of a later createIPCertificate; key.pem is missing or holds key 1 or 2.
InitKey ==
    /\ pc = "download"
    /\ exit = NoExit
    /\ Loaded({EnvWith([IPSSL_API_KEY |-> "key", IPSSL_CONTAINER_NAME |-> n]) :
                 n \in {"", "web"}})
    /\ ctxCancelled = FALSE
    /\ tickReady = FALSE
    /\ pollTickReady = FALSE
    /\ now = 0
    /\ certs = << [id |-> 1, cn |-> ClientIP, status |-> "issued", key |-> 1,
                   notAfter |-> Lifetime] >>
    /\ privateKeys \in {0, 1, 2}
    /\ nextKey = 3
    /\ certFile = NoCert
    /\ keyFile \in {NoKey} \cup {[present |-> TRUE, key |-> k, gen |-> 0] : k \in {1, 2}}
    /\ valFile = NoFiles
    /\ cur = 1
    /\ bundle = NoCert
    /\ keyPEM = 0
    /\ pollObs = <<"issued">>
    /\ pollOutcome = "success"
    /\ reload = "none"
    /\ origin \in {"startup", "tick"}
    /\ attemptNo = 1
    /\ inFlight = 1
    /\ lastOutcome = "none"
    /\ startReason = "missing"
    /\ startNotAfter = 0
    /\ allOk = TRUE
    /\ valTrace = NoTrace
    /\ reloadCall = NoCall

NextKey ==
    \/ Download
    \/ Persist

SpecKey == InitKey /\ [][NextKey]_vars

\* ------------------------------------------ persist with any Docker daemon
\* the names and states a listed container can have
ContainerKinds ==
    [names : {<<"/caddy-1">>, <<"caddy-1">>, <<"/other">>, <<"/alias", "/caddy-1">>,
              <<"/caddy-10">>},
     state : {"running", "exited"}]

\* what ContainerList can return: up to n containers, identified by position
DaemonsUpTo(n) ==
    UNION { { [i \in 1..k |-> Container(i, q[i].names, q[i].state)] :
              q \in [1..k -> ContainerKinds] } : k \in 0..n }

PersistObserved == PersistWith(DaemonsUpTo(MaxContainers), TRUE)

NextDocker ==
    \/ Download
    \/ PersistObserved

SpecDocker == InitKey /\ [][NextDocker]_vars

\* ------------------------------------ download and persist, any answer
\* the authority may serve any of its answers
DownloadAny == DownloadWith(Responses)

NextBundle ==
    \/ DownloadAny
    \/ Persist

SpecBundle == InitKey /\ [][NextBundle]_vars

\* --------------------------------------- the process in any environment
\* each variable unset or set as TestLoad sets it; the two durations also
\* set to something time.ParseDuration rejects
TestEnvironments ==
    { [k \in EnvKeys |-> IF k \in DOMAIN e THEN e[k] ELSE ""] :
        e \in [CLIENT_IP : {"", "192.168.1.1"},
               IPSSL_API_KEY : {"", "test-api-key"},
               IPSSL_VALIDATION_DIR : {"", "/test/validation"},
               IPSSL_SSL_DIR : {"", "/test/ssl"},
               IPSSL_CONTAINER_NAME : {"", "test-container"},
               RENEWAL_INTERVAL : {"", "1h", "abc"},
               CERT_VALIDITY : {"", "720h", "30d"}] }

InitConfig == ProcessStarts(TestEnvironments)

\* main up to Start's initial check
NextConfig ==
    \/ Load
    \/ NewClient
    \/ Start

SpecConfig == InitConfig /\ [][NextConfig]_vars

\* ------------------------------------ the process with and without reload
\* IPSSL_CONTAINER_NAME set or left empty, the API key set, and no shutdown
\* signal
InitReload ==
    ProcessStarts({EnvWith([IPSSL_API_KEY |-> "key", IPSSL_CONTAINER_NAME |-> n]) :
                     n \in {"", "caddy-1"}})

NextReload ==
    \/ Load
    \/ NewClient
    \/ Start
    \/ TimerFire
    \/ SelectTick
    \/ RequestStep
    \/ Validate
    \/ PollTimerFire
    \/ PollTick
    \/ Download
    \/ Persist
    \/ Advance
    \/ AuthorityStep

SpecReload == InitReload /\ [][NextReload]_vars


\* ------------------------------------------------------------ properties
Last(seq) == seq[Len(seq)]
TerminalObservations == {"issued", "cancelled", "expired"}

\* C1: a renewal attempt that fails, the one made at startup included, never
\* ends the process: the step in which requestCertificate returns an error
\* leaves the scheduler in its loop (Idle) with the process running.
C1_FailureKeepsSchedulerRunning ==
    [][(pc \in RenewingPcs /\ lastOutcome' = "failed")
         => (pc' = "select" /\ exit' = NoExit)]_vars

\* C2: an attempt started because cert.pem is not expired but expires within
\* the threshold, and in which every authority call and file write succeeds,
\* leaves a certificate on disk that expires strictly later than the one it
\* replaced and that passes isCertificateValid.
C2_RenewalReplacesExpiringCertificate ==
    [][(/\ pc = "persist"
        /\ lastOutcome' = "success"
        /\ startReason = "expiring"
        /\ allOk'
        /\ Threshold < Lifetime)
         => (certFile'.notAfter > startNotAfter /\ isCertificateValid')]_vars

\* C3: in every reachable state cert.pem and key.pem were written by the same
\* renewal attempt (the same generation).
C3_CertAndKeySameGeneration ==
    (certFile.present /\ keyFile.present) => certFile.gen = keyFile.gen

\* C4: after every successful attempt key.pem holds the key whose signing
\* request was submitted for the request whose certificate is in cert.pem.
C4_PersistedKeyMatchesCertificate ==
    lastOutcome = "success" => keyFile.key = certFile.key

\* C5: when an attempt started at a tick fails, the scheduler is back in its
\* select with no attempt in flight (no inline retry); an attempt is started
\* from the select only by taking a tick while the store is not valid, and a
\* tick taken while the store is not valid does start one.
C5_FailedAttemptRetriedOnlyAtNextTick ==
    [][/\ (pc \in RenewingPcs /\ origin = "tick" /\ lastOutcome' = "failed")
            => (pc' = "select" /\ inFlight' = 0 /\ exit' = NoExit)
       /\ (pc = "select" /\ pc' \in RenewingPcs)
            => (tickReady /\ ~tickReady' /\ ~isCertificateValid)
       /\ (pc = "select" /\ tickReady /\ ~tickReady' /\ ~isCertificateValid)
            => (pc' = "request" /\ attemptNo' = attemptNo + 1)]_vars

\* a second attempt has been started at a tick although cert.pem is still the
\* file of the earlier run: the first attempt, made at a tick, failed
C5_Witness ==
    /\ pc = "request"
    /\ origin = "tick"
    /\ attemptNo = 2
    /\ startReason = "expiring"
    /\ certFile.gen = 0

\* C6: at most one renewal attempt is in flight, and one is in flight exactly
\* while the scheduler is in Renewing; a tick that fires meanwhile stays in
\* the ticker's channel.
C6_SingleFlight ==
    /\ inFlight <= 1
    /\ (inFlight = 1) <=> (pc \in RenewingPcs)

\* a tick has fired while an attempt started at a tick is polling
C6_Witness ==
    /\ pc = "poll"
    /\ origin = "tick"
    /\ tickReady
    /\ inFlight = 1

\* C7: once cancel() has been called, the scheduler's select starts no new
\* renewal attempt, also when a tick is ready at the same time.
C7_NoAttemptAfterCancellation ==
    [][(ctxCancelled /\ pc = "select") => (pc' \notin RenewingPcs /\ attemptNo' = attemptNo)]_vars

\* C8: the process takes the fatal exit only when config.Load or
\* ipssl.NewClient failed.
C8_FatalOnlyForConfigOrConstruction ==
    exit.status = "fatal" => exit.cause \in {"config", "construct"}

\* C9: the poller returns success exactly when its last status fetch saw
\* issued, returns failure exactly when its last fetch saw cancelled or
\* expired, makes no fetch after such an observation, and on success hands
\* the fetched request on to the download.
C9_PollerEndsOnTerminalStatus ==
    /\ (pollOutcome = "success") <=> (pollObs # <<>> /\ Last(pollObs) = "issued")
    /\ (pollOutcome = "failed") <=> (pollObs # <<>> /\ Last(pollObs) \in {"cancelled", "expired"})
    /\ \A i \in 1..(Len(pollObs) - 1) : pollObs[i] \notin TerminalObservations
    /\ pollOutcome = "success" => (pc = "download" /\ cur = 1)
    /\ pollOutcome = "failed" => pc \in {"select", "exited"}

\* draft, pending_validation, issued over three ticks: success at the third
C9_Witness ==
    /\ pollObs = <<"draft", "pending_validation", "issued">>
    /\ pollOutcome = "success"
    /\ pc = "download"

\* C10: the poller is still in its loop after every observation that is not
\* terminal (draft, pending_validation, an unrecognised status, a failed
\* fetch); it returns only with success, terminal failure or, once ctx is
\* cancelled, Cancelled.
C10_PollerStaysOnNonTerminal ==
    /\ pollOutcome \in {"none", "success", "failed", "cancelled"}
    /\ (pollOutcome = "none") <=> (pc = "poll")
    /\ pollOutcome = "cancelled" => ctxCancelled
    /\ (pollObs # <<>> /\ Last(pollObs) \notin TerminalObservations)
         => pollOutcome \in {"none", "cancelled"}

\* a failed fetch, a draft and an unrecognised status were observed and the
\* poller is still waiting
C10_Witness ==
    /\ pc = "poll"
    /\ pollOutcome = "none"
    /\ Len(pollObs) = 3
    /\ \E i, j, k \in 1..3 :
         /\ pollObs[i] = "error"
         /\ pollObs[j] \in {"draft", "pending_validation"}
         /\ pollObs[k] = "revoked"

\* C11: in the poller cancellation has priority over a tick: every step the
\* poller takes while ctx is already cancelled (a fetch or a return) is the
\* return of Cancelled, with no status fetch added.
C11_PollerCancellationBeforeTick ==
    [][(pc = "poll" /\ ctxCancelled /\ (pollObs' # pollObs \/ pc' # "poll"))
         => (pollObs' = pollObs /\ pollOutcome' = "cancelled")]_vars

StoreReadable == certificateFilesExist /\ ~IsCertificateValidFails(certFile)
\* the scheduler makes its validity check in this step
ChecksValidity ==
    \/ pc = "start" /\ pc' # "start"
    \/ pc = "select" /\ tickReady /\ ~tickReady'

\* C13: a certificate whose NotAfter is earlier than now is not valid, for
\* every threshold, zero and negative ones included; the scheduler that
\* checks such a store starts a renewal attempt.
C13_ExpiredNeverValid ==
    /\ [](now > certFile.notAfter =>
            /\ ~isCertificateValid
            /\ \A th \in Thresholds : ~IsCertificateValid(certFile.notAfter, now, th))
    /\ [][(ChecksValidity /\ now > certFile.notAfter /\ pc' # "exited")
            => pc' = "request"]_vars

\* an attempt was started for an expired certificate under a negative threshold
C13_Witness ==
    /\ pc = "request"
    /\ startReason = "expired"
    /\ Threshold < 0
    /\ now > certFile.notAfter

\* C14 as stated: whenever cert.pem and key.pem exist, cert.pem parses and
\* NotAfter is later than now + threshold, the store is valid.
C14_BeyondThresholdValid ==
    (StoreReadable /\ certFile.notAfter > now + Threshold) => isCertificateValid

\* C14 amended: whenever cert.pem and key.pem exist, cert.pem parses, the
\* certificate is not expired (NotAfter is not earlier than now) and NotAfter
\* is later than now + threshold, the store is valid, and the scheduler that
\* checks it starts no renewal attempt.
C14_BeyondThresholdValidUnlessExpired ==
    /\ [](( /\ StoreReadable
            /\ certFile.notAfter >= now
            /\ certFile.notAfter > now + Threshold) => isCertificateValid)
    /\ [][( /\ ChecksValidity
            /\ StoreReadable
            /\ certFile.notAfter >= now
            /\ certFile.notAfter > now + Threshold
            /\ pc' # "exited") => (pc' = "select" /\ attemptNo' = attemptNo)]_vars

\* the check at a tick found a certificate beyond a positive threshold valid
C14_Witness ==
    /\ pc = "select"
    /\ ~tickReady
    /\ attemptNo = 0
    /\ StoreReadable
    /\ Threshold > 0
    /\ certFile.notAfter > now + Threshold
    /\ isCertificateValid

\* C15: a certificate with now <= NotAfter <= now + threshold, both ends
\* included, is not valid.
C15_WithinThresholdInclusiveNotValid ==
    ( /\ StoreReadable
      /\ now <= certFile.notAfter
      /\ certFile.notAfter <= now + Threshold) => ~isCertificateValid

\* C16: the validity check yields a boolean and no error: a missing cert.pem
\* or key.pem and a cert.pem that cannot be read, decoded or parsed make it
\* false, and the scheduler that checks such a store, at startup or at a
\* tick, starts a renewal attempt (Start can only fail before the check, in
\* ensureDirectories).
C16_CheckFailsSilentlyToFalse ==
    /\ [](isCertificateValid \in BOOLEAN /\ (~StoreReadable => ~isCertificateValid))
    /\ [][(ChecksValidity /\ ~StoreReadable)
            => \/ pc' = "request" /\ inFlight' = 1 /\ exit' = NoExit
               \/ pc = "start" /\ exit' = Fatal("ensure_directories")]_vars

\* an attempt was started at a tick because cert.pem does not parse
C16_Witness ==
    /\ pc = "request"
    /\ origin = "tick"
    /\ startReason = "unparsable"
    /\ certFile.form = "not_x509"

ExpectedContent(tokens) ==
    CASE Len(tokens) = 1 -> tokens[1]
      [] Len(tokens) = 2 -> tokens[1] \o "\n" \o tokens[2]
      [] Len(tokens) = 3 -> tokens[1] \o "\n" \o tokens[2] \o "\n" \o tokens[3]
      [] Len(tokens) = 4 -> tokens[1] \o "\n" \o tokens[2] \o "\n" \o tokens[3]
                            \o "\n" \o tokens[4]

\* <validationDir>/.well-known/pki-validation/<last segment of the URL>
ExpectedPath(m) == <<ValidationDir, ".well-known", "pki-validation", m.url[Len(m.url)]>>

WithTokens(ms) == {i \in 1..Len(ms) : Len(ms[i].tokens) > 0}

\* validation has just returned without error
ValidationSucceeds == pc = "validate" /\ pc' = "poll"

\* C18: after a validation that returned without error, every method of the
\* updated details with at least one token has its file, named by the last
\* segment of its URL under <validationDir>/.well-known/pki-validation/,
\* holding exactly the tokens joined by single newlines, whatever the file
\* held before; so has every method of the first details whose file the
\* second pass did not rewrite; a method without tokens writes no file and is
\* no error, and no other file is created or changed.
C18_ValidationFilesHoldJoinedTokens ==
    [][ValidationSucceeds =>
         LET first == valTrace'.first
             updated == valTrace'.updated
             named == {ExpectedPath(first[i]) : i \in WithTokens(first)}
                        \cup {ExpectedPath(updated[i]) : i \in WithTokens(updated)}
         IN /\ \A i \in WithTokens(updated) :
                 /\ ExpectedPath(updated[i]) \in DOMAIN valFile'
                 /\ valFile'[ExpectedPath(updated[i])] = ExpectedContent(updated[i].tokens)
            /\ \A i \in WithTokens(first) :
                 (\A j \in WithTokens(updated) :
                     ExpectedPath(updated[j]) # ExpectedPath(first[i]))
                 => /\ ExpectedPath(first[i]) \in DOMAIN valFile'
                    /\ valFile'[ExpectedPath(first[i])] = ExpectedContent(first[i].tokens)
            /\ DOMAIN valFile' = DOMAIN valFile \cup named
            /\ \A q \in DOMAIN valFile \ named : valFile'[q] = valFile[q]
       ]_vars

\* the stale XYZ123 file was overwritten with "abc\ndef" while the details
\* also named a method without tokens, which left no file
C18_Witness ==
    /\ pc = "poll"
    /\ \E i \in 1..Len(valTrace.updated) :
         /\ valTrace.updated[i].tokens = <<"abc", "def">>
         /\ Last(valTrace.updated[i].url) = "XYZ123"
    /\ \E i \in 1..Len(valTrace.updated) : valTrace.updated[i].tokens = <<>>
    /\ valTrace.first = << Method(<<"new">>, "XYZ123") >>
    /\ valFile = WriteFile(NoFiles,
                           <<"/usr/share/caddy", ".well-known", "pki-validation", "XYZ123">>,
                           "abc\ndef")

\* the validation attempt has just given up with a filesystem error: the
\* last thing it did was a failed MkdirAll or WriteFile
ValidationFailsOnFilesystem ==
    /\ pc = "validate"
    /\ pc' \notin {"validate", "poll"}
    /\ Last(valTrace'.calls) = "write"

\* C19: whenever the validation attempt gives up with a filesystem error, the
\* updated request status was fetched from the authority before it gave up
\* (a second GetCertificate follows the failed write).
C19_FilesystemErrorAfterUpdatedFetch ==
    [][ValidationFailsOnFilesystem
         => \E i, j \in 1..Len(valTrace'.calls) :
              /\ i < j
              /\ valTrace'.calls[i] = "write"
              /\ valTrace'.calls[j] = "get"
       ]_vars

\* ---- triggerValidation
\* the result of ValidateCertificate does not depend on whether
\* VerifyIdentifiers failed, whatever the other calls return
TriggerFailureChangesNothing ==
    \A get1, get2 \in {FetchFailed} \cup FetchesUpTo(MaxMethods), write1, write2 \in BOOLEAN :
        LET ok == ValidateCertificate(valFile, get1, write1, TRUE, get2, write2)
            failed == ValidateCertificate(valFile, get1, write1, FALSE, get2, write2)
        IN /\ failed.err = ok.err
           /\ failed.files = ok.files
           /\ Len(failed.calls) = Len(ok.calls)
           /\ \A i \in 1..Len(ok.calls) : i # 3 => failed.calls[i] = ok.calls[i]

\* a ValidateCertificate whose VerifyIdentifiers failed has just returned
ReturnsAfterFailedTrigger ==
    /\ pc = "validate"
    /\ pc' # "validate"
    /\ \E i \in 1..Len(valTrace'.calls) : valTrace'.calls[i] = "trigger_failed"

\* C20: a failed triggerValidation is not propagated: the attempt goes on to
\* fetch the updated status, writes the validation files it names and, unless
\* one of those fails, polls for issuance; error and files are the ones the
\* attempt would end with had the trigger succeeded with the same other
\* responses.
C20_TriggerFailureNotPropagated ==
    /\ [](pc = "validate" => TriggerFailureChangesNothing)
    /\ [][ReturnsAfterFailedTrigger
            => /\ Len(valTrace'.calls) >= 4
               /\ valTrace'.calls[4] = "get"
               /\ Len(valTrace'.calls) = 5 => valTrace'.calls[5] = "write"
               /\ pc' = "poll" <=> (Len(valTrace'.calls) = 5 /\ lastOutcome' # "failed")
               /\ pc' = "poll"
                    => \A i \in WithTokens(valTrace'.updated) :
                         valFile'[ExpectedPath(valTrace'.updated[i])]
                           = ExpectedContent(valTrace'.updated[i].tokens)
         ]_vars

\* after a failed trigger the updated details named a file, which was written,
\* and the poller has fetched the status
C20_Witness ==
    /\ pc = "poll"
    /\ valTrace.calls = <<"get", "write", "trigger_failed", "get", "write">>
    /\ valTrace.first = <<>>
    /\ WithTokens(valTrace.updated) # {}
    /\ valFile # NoFiles
    /\ pollObs # <<>>

\* ---- findExistingCertificate
\* the positions of the listed requests findExisting may return
Qualifying(list, ip) ==
    {i \in 1..Len(list) : list[i].cn = ip /\ list[i].status \in {"issued", "pending_validation", "draft"}}

\* the identifier at the first such position, 0 for none
FirstQualifying(list, ip) ==
    IF Qualifying(list, ip) = {} THEN 0
    ELSE list[CHOOSE i \in Qualifying(list, ip) : \A j \in Qualifying(list, ip) : i <= j].id

KeyRetrieved == pc = "download" /\ pc' = "persist"
KeyRetrievalFails == pc = "download" /\ pc' \notin {"download", "persist"}

\* C22: the key is the cache entry of the subject IP if there is one;
\* otherwise the content of key.pem if it can be read; otherwise a freshly
\* generated key, which is then cached and written to key.pem (a failed
\* write leaves key.pem as it was).  Cache and key.pem are unchanged whenever
\* the cache or the file supplies the key, and when retrieval fails.
C22_KeyResolutionOrder ==
    [][/\ KeyRetrieved =>
            IF privateKeys # 0
            THEN keyPEM' = privateKeys /\ UNCHANGED <<privateKeys, keyFile, nextKey>>
            ELSE IF keyFile.present
            THEN keyPEM' = keyFile.key /\ UNCHANGED <<privateKeys, keyFile, nextKey>>
            ELSE /\ keyPEM' \notin {0, 1, 2}
                 /\ privateKeys' = keyPEM'
                 /\ \/ keyFile'.present /\ keyFile'.key = keyPEM'
                    \/ keyFile' = keyFile
        /\ KeyRetrievalFails => UNCHANGED <<privateKeys, keyFile, nextKey>>
      ]_vars

\* cache and key.pem held different keys and the cache supplied the key
C22_Witness ==
    /\ pc = "persist"
    /\ privateKeys = 2
    /\ keyFile.present /\ keyFile.key = 1
    /\ keyPEM = 2

\* ---- reload
\* requestCertificate has just returned from its persist phase
PersistReturns == pc = "persist" /\ pc' # "persist"

\* C23: a reload is attempted only after cert.pem and key.pem were both
\* written in that attempt; a failed reload neither fails the attempt nor
\* touches the two files, which hold what was persisted.
C23_ReloadBestEffort ==
    [][PersistReturns =>
         /\ reload' \in {"ok", "failed"}
              => /\ certFile' = bundle
                 /\ keyFile'.present /\ keyFile'.key = keyPEM
         /\ reload' = "failed"
              => /\ lastOutcome' = "success"
                 /\ pc' = "select"
                 /\ exit' = exit
         /\ lastOutcome' = "failed" => reload' = "none"
      ]_vars

\* the reload failed after an attempt that persisted certificate and key
C23_Witness ==
    /\ reload = "failed"
    /\ lastOutcome = "success"
    /\ certFile.present /\ keyFile.present
    /\ certFile.req = 1 /\ keyFile.key \in {1, 2, 3}
    /\ pc = "select"

\* C24: with the container name left empty no Docker client is constructed
\* (so its construction cannot fail) and no attempt ever makes a reload call,
\* while attempts still succeed with cert.pem and key.pem persisted; with a
\* non-empty name every attempt that persisted both files made its one reload
\* call, and a reload call is only ever made by such an attempt.
C24_EmptyNameDisablesReload ==
    /\ env["IPSSL_CONTAINER_NAME"] = ""
         => /\ reload \in {"none", "skipped"}
            /\ exit.cause # "construct"
            /\ lastOutcome = "success" => (reload = "skipped" /\ certificateFilesExist)
    /\ env["IPSSL_CONTAINER_NAME"] # ""
         => (lastOutcome = "success" => reload \in {"ok", "failed"})
    /\ reload \in {"ok", "failed"} => lastOutcome = "success"

\* ---- ReloadContainer
\* the container is called name or "/" + name
Named(c, name) ==
    \E n \in {c.names[i] : i \in 1..Len(c.names)} : n \in {name, "/" \o name}

\* the positions of the listed containers with the name
Matches(cs, name) == {i \in 1..Len(cs) : Named(cs[i], name)}

FirstMatch(cs, name) == CHOOSE i \in Matches(cs, name) : \A j \in Matches(cs, name) : i <= j

\* C25: a reload call signals at most the first listed container named name
\* or "/" + name, and only if that container is running; with no such
\* container it fails with not-found, with that container not running it
\* fails with not-running, and in both cases no container is signalled.
C25_ReloadSignalsFirstRunningMatch ==
    reloadCall # NoCall =>
        LET cs == reloadCall.containers
            name == cfg.ContainerName
        IN /\ reloadCall.signalled # <<>>
                => /\ Matches(cs, name) # {}
                   /\ reloadCall.signalled = << cs[FirstMatch(cs, name)].id >>
                   /\ cs[FirstMatch(cs, name)].state = "running"
                   /\ reloadCall.err = "nil"
           /\ reloadCall.err = "nil" => reloadCall.signalled # <<>>
           /\ (Matches(cs, name) = {} /\ reloadCall.err # "list")
                => (reloadCall.err = "not_found" /\ reloadCall.signalled = <<>>)
           /\ (Matches(cs, name) # {} /\ reloadCall.err # "list"
                /\ cs[FirstMatch(cs, name)].state # "running")
                => (reloadCall.err = "not_running" /\ reloadCall.signalled = <<>>)
           /\ reloadCall.err = "not_found" => Matches(cs, name) = {}
           /\ reloadCall.err = "not_running"
                => (Matches(cs, name) # {} /\ cs[FirstMatch(cs, name)].state # "running")

\* the first container with the name is stopped and a later one runs: the
\* call failed with not-running and signalled neither
C25_Witness ==
    /\ Len(reloadCall.containers) = 2
    /\ reloadCall.containers[1].names = <<"/alias", "/caddy-1">>
    /\ reloadCall.containers[1].state = "exited"
    /\ reloadCall.containers[2].names = <<"caddy-1">>
    /\ reloadCall.containers[2].state = "running"
    /\ reloadCall.err = "not_running"
    /\ reloadCall.signalled = <<>>
    /\ lastOutcome = "success"

\* ---- config.Load
\* the documented default of each key other than the API key, durations in
\* hours
DefaultOf ==
    [CLIENT_IP |-> "127.0.0.1", IPSSL_VALIDATION_DIR |-> "/usr/share/caddy/",
     IPSSL_SSL_DIR |-> "/ipssl/", IPSSL_CONTAINER_NAME |-> "caddy-1",
     RENEWAL_INTERVAL |-> 24, CERT_VALIDITY |-> 30 * 24]

\* the field of the configuration that holds each key
FieldOf(c) ==
    [CLIENT_IP |-> c.ClientIP, IPSSL_VALIDATION_DIR |-> c.ValidationDir,
     IPSSL_SSL_DIR |-> c.SSLDir, IPSSL_CONTAINER_NAME |-> c.ContainerName,
     RENEWAL_INTERVAL |-> c.RenewalInterval, CERT_VALIDITY |-> c.CertValidity]

TestLoadEnv ==
    EnvWith([CLIENT_IP |-> "192.168.1.1", IPSSL_API_KEY |-> "test-api-key",
             IPSSL_VALIDATION_DIR |-> "/test/validation", IPSSL_SSL_DIR |-> "/test/ssl",
             IPSSL_CONTAINER_NAME |-> "test-container", RENEWAL_INTERVAL |-> "1h",
             CERT_VALIDITY |-> "720h"])

\* C27: with all seven keys set as in TestLoad, Load returns exactly those
\* values, RENEWAL_INTERVAL="1h" as a renewal interval of 1 hour and
\* CERT_VALIDITY="720h" as a validity threshold of 30 hours.
C27_LoadReturnsTestLoadValues ==
    (env = TestLoadEnv /\ pc # "load")
        => cfg = [ClientIP |-> "192.168.1.1", APIKey |-> "test-api-key",
                  ValidationDir |-> "/test/validation", SSLDir |-> "/test/ssl",
                  ContainerName |-> "test-container", RenewalInterval |-> 1,
                  CertValidity |-> 30]

\* ---- order of the steps of one attempt
\* the phase that may follow each phase of an attempt
NextPhase ==
    [request |-> {"validate"}, validate |-> {"poll"}, poll |-> {"poll", "download"},
     download |-> {"persist"}, persist |-> {}]

\* C28: within an attempt the phases follow one another only in the order
\* find-or-create, validate, poll, download and key retrieval, persist and
\* reload.  Download is entered only when the poller's last fetch saw the
\* attempt's request issued; cert.pem and key.pem are written by persist only
\* with the downloaded certificate and the retrieved key; a phase that returns
\* an error ends the attempt: no later phase runs, nothing is persisted and
\* no reload is made.
C28_StepsInOrder ==
    [][(pc \in RenewingPcs) =>
         /\ pc' \in RenewingPcs => (pc' \in NextPhase[pc] /\ (pc # "request" => cur' = cur))
         /\ pc' = "download" /\ pc # "download"
              => /\ pc = "poll"
                 /\ Last(pollObs') = "issued"
                 /\ GetCertificate(certs, cur').status = "issued"
         /\ pc' = "persist" => (bundle'.present /\ bundle'.req = cur /\ keyPEM' # 0)
         /\ certFile' # certFile
              => (pc = "persist" /\ bundle.present /\ keyPEM # 0 /\ certFile' = bundle)
         /\ keyFile' # keyFile
              => \/ pc = "persist" /\ bundle.present /\ keyPEM # 0 /\ keyFile'.key = keyPEM
                 \/ pc = "download" /\ ~keyFile.present /\ keyFile'.key = keyPEM'
         /\ reload' \in {"ok", "failed"} => (pc = "persist" /\ lastOutcome' = "success")
         /\ lastOutcome' = "failed"
              => /\ pc' \notin RenewingPcs
                 /\ inFlight' = 0
                 /\ reload' = "none"
                 /\ pc # "persist" => UNCHANGED <<certFile, keyFile>>
      ]_vars

\* an attempt went through every phase and returned from persist
C28_Witness ==
    /\ lastOutcome = "success"
    /\ reload = "ok"
    /\ origin = "tick"
    /\ certFile.present /\ certFile.gen = attemptNo
    /\ keyFile.present
    /\ pc = "select"

\* ---- a valid store
\* C29: when the validity check yields true, at startup or at a tick, the
\* scheduler is idle in its select afterwards and the step changed nothing:
\* no attempt was started (so no authority call was made), no key was
\* generated or cached, and cert.pem, key.pem and the validation files are
\* as they were.
C29_ValidCheckChangesNothing ==
    [][(ChecksValidity /\ isCertificateValid /\ pc' # "exited")
         => /\ pc' = "select"
            /\ inFlight' = 0
            /\ UNCHANGED <<attemptNo, cur, certs, privateKeys, nextKey, certFile,
                           keyFile, valFile, valTrace, reload, reloadCall, exit>>
      ]_vars

\* a check found a certificate valid that is exactly at its
\* threshold, and the scheduler waits in its select
C29_Witness ==
    /\ pc = "select"
    /\ ~tickReady
    /\ now > 0
    /\ isCertificateValid
    /\ certFile.notAfter = now + Threshold
    /\ attemptNo = 0
    /\ inFlight = 0

\* ---- poller termination
\* the poller has returned
PollerReturned == pc # "poll"

\* C30: with ticks scheduled fairly the poller returns once a fetch reports
\* issued, cancelled or expired, and eventually returns once cancellation is
\* raised; it returns for no other reason, and while neither has happened it
\* can always take another tick, however many fetches have failed or reported
\* a non-terminal status.
C30_PollerTermination ==
    /\ [](pollObs # <<>> /\ Last(pollObs) \in TerminalObservations => PollerReturned)
    /\ ctxCancelled ~> PollerReturned
    /\ [](PollerReturned
            => \/ pollOutcome = "cancelled" /\ ctxCancelled
               \/ pollObs # <<>> /\ Last(pollObs) \in TerminalObservations)
    /\ []((~PollerReturned /\ ~ctxCancelled)
            => ENABLED (PollTimerFire \/ PollTickUnbounded))

\* after an unrecognised status kept the poller waiting, cancellation made it
\* return
C30_Witness ==
    /\ PollerReturned
    /\ pollOutcome = "cancelled"
    /\ pollObs = <<"revoked">>
    /\ lastOutcome = "failed"

\* ---- reuse or creation of the request
\* RequestCertificate decides in this step
RequestDecided == pc = "request" /\ pc' # "request"
\* a request was recorded by the authority in this step
RequestCreated == RequestDecided /\ certs' # certs
\* what findExisting returns for the client when its listing succeeds
Found == findExistingCertificate(certs, ClientIP)

\* C31: within an attempt a request is created, with a new key pair, only
\* when findExisting returned none or failed, and whenever the attempt goes
\* on after findExisting returned none; a failure of findExisting does not
\* end the attempt; a request found is reused, with no request created and
\* the key cache untouched; at most one request is created.
C31_CreateIffNoneFound ==
    /\ [][RequestCreated => Found = 0 \/ ~allOk']_vars
    /\ [][RequestCreated
            => /\ certs' = Append(certs, NewRequest(nextKey))
               /\ cur' = Len(certs')
               /\ privateKeys' = nextKey /\ nextKey' = nextKey + 1
               /\ pc' = "validate"]_vars
    /\ [][(RequestDecided /\ pc' = "validate" /\ Found = 0) => RequestCreated]_vars
    /\ [][(RequestDecided /\ pc' = "validate" /\ ~RequestCreated)
            => /\ cur' = Found /\ Found # 0
               /\ privateKeys' = privateKeys /\ nextKey' = nextKey]_vars

\* findExisting failed although a request of the client could be reused: a
\* second request was created and the attempt went on to validation
C31_Witness ==
    /\ pc = "validate"
    /\ ~allOk
    /\ Len(certs) = 2
    /\ certs[1].cn = ClientIP /\ certs[1].status = "draft"
    /\ cur = 2 /\ privateKeys = certs[2].key

\* ---- the poller's first fetch
\* the attempt enters the poller
PollerEntered == pc # "poll" /\ pc' = "poll"
\* the poller makes a status fetch
StatusFetched == pc = "poll" /\ pollObs' # pollObs

\* C32: the poller is entered with no tick pending and no fetch made; every
\* status fetch, the first included, takes a tick that has fired, whatever
\* the status of the request awaited; the attempt reaches download only from
\* a fetch made on a tick.
C32_FirstFetchAfterTick ==
    /\ [][PollerEntered => ~pollTickReady' /\ pollObs' = <<>>]_vars
    /\ [][StatusFetched => pollTickReady /\ ~pollTickReady']_vars
    /\ [][(pc = "poll" /\ pc' = "download") => pollTickReady /\ StatusFetched]_vars

\* a request found already issued is awaited: the poller has made no fetch
\* and waits for its first tick
C32_Witness ==
    /\ pc = "poll"
    /\ pollObs = <<>>
    /\ ~pollTickReady
    /\ attemptNo = 2
    /\ Len(certs) = 1
    /\ cur = 1
    /\ certs[1].status = "issued"

\* ---- the certificate bytes
\* leaf, newline, chain; the part that is there when the other is not
ExpectedBytes(leaf, chain) ==
    IF leaf # "" /\ chain # "" THEN leaf \o "\n" \o chain
    ELSE IF chain = "" THEN leaf
    ELSE chain

\* requestCertificate writes cert.pem in this step
CertWritten == pc = "persist" /\ certFile' # certFile

\* C33: the bytes RequestCertificate returns are the leaf, a newline and the
\* chain when both are there, the leaf alone or the chain alone otherwise;
\* the chain is the one the authority serves with the cross-signed
\* intermediates included; cert.pem receives exactly these bytes.
C33_CertBytes ==
    /\ [](bundle.present
            => /\ bundle.pem = ExpectedBytes(bundle.parts.CertificateCrt,
                                             bundle.parts.CABundleCrt)
               /\ bundle.parts.CABundleCrt \in ChainsOf(TRUE))
    /\ [][CertWritten => certFile'.pem = bundle.pem /\ certFile'.parts = bundle.parts]_vars

\* a download without a leaf: cert.pem holds the chain alone
C33_Witness ==
    /\ certFile.present
    /\ certFile.parts = CertificateBundle("", "chain+cross")
    /\ certFile.pem = "chain+cross"
    /\ pc \notin RenewingPcs

\* ---- the key cache on a failed createIPCertificate
\* RequestCertificate returns an error from its first part
RequestFails == pc = "request" /\ pc' \notin {"request", "validate"}

\* C34: when createRequest fails, for an invalid subject IP, a signing-request
\* error or a submission the authority rejects, the key cache is as it was
\* before the call.
C34_FailedCreateKeepsCache ==
    [][RequestFails => privateKeys' = privateKeys]_vars

\* ---- the paths of an attempt and the configuration
\* the directory validation files are written under is the loaded one
ValidationDirFromSnapshot ==
    (pc # "load" /\ cfg # NoConfig)
        => CleanDir(requestValidationDir(env)) = CleanDir(cfg.ValidationDir)

\* C35: in every loaded configuration the validation files go under the
\* configuration's validation directory, and the key file that key retrieval
\* falls back to, and writes a generated key to, is <SSLDir>/key.pem of the
\* configuration, the file persist writes.
C35_PathsFromSnapshot ==
    (pc # "load" /\ cfg # NoConfig)
        => /\ CleanDir(requestValidationDir(env)) = CleanDir(cfg.ValidationDir)
           /\ getPrivateKeyPath = keyPath(cfg)

====
